---------------------------- MODULE Spec2Model ----------------------------
(***************************************************************************)
(* DocChat Pro: the browser store (dc_users, dc_docs, dc_session), the App *)
(* component (session restore, login, logout), the AdminPanel (documents,  *)
(* users, access toggles) and the ChatInterface (message log, AI request,  *)
(* selection, export).  One browser tab, as the design assumes; a page     *)
(* reload is an action.                                                    *)
(*                                                                         *)
(*   Spec        the store, the session and access control: App, the      *)
(*               AdminPanel, the binding of the chat view to a document   *)
(*   SpecChat    the conversation of a chat view, with App                *)
(*   SpecStore   App on a dc_users / dc_docs slot of any content          *)
(*   SpecExport  the selection and exportChat on any log                  *)
(*                                                                         *)
(* Message timestamps and the retrieval mode tag are display data that no  *)
(* handler branches on for the log, the store or the session; they are not *)
(* part of the state, nor is the tab of the AdminPanel.  Math.random() ids *)
(* are fresh ids from counters.                                            *)
(***************************************************************************)
EXTENDS Integers, Sequences, FiniteSets, TLC

(* ------------------------------ bounds -------------------------------- *)

\* users ever created by addUser (ids 2..MaxUsers + 1; id 1 is the seed admin)
MaxUsers == 1
\* documents ever created by handleUpload (ids 11..MaxDocs + 10)
MaxDocs == 2
\* Date.now() runs from 0 to MaxClock
MaxClock == 1
\* the message log is not grown beyond MaxMsgs entries
MaxMsgs == 3
\* AI requests of unmounted chat views that are still running
MaxOrphan == 1
\* outstanding requests of one chat view the model can represent
MaxReqs == 2
\* records in the dc_users slot found when the page is opened
MaxStored == 2
\* messages in the logs exportChat is applied to
MaxExportMsgs == 3

(* ------------------------------ inputs -------------------------------- *)

\* what the admin types into the two prompt() dialogs of addUser
AddNames == {"bob", "admin"}
AddPwds == {"pw"}
\* what is typed into the login form (both fields are `required`)
LoginNames == {"admin", "bob", "Bob"}
LoginPwds == {"admin", "pw"}
\* what is typed into the chat input
Prompts == {"hi", " "}
\* what is typed into an instruction textarea
Instructions == {"Answer clearly.", "Be brief."}
Formats == {"pdf", "docx"}

(* ---------------------------- program texts --------------------------- *)

InvalidCreds == "Invalid Credentials (Hint: admin/admin)"
KeyMissing == "API_KEY missing in Environment!"
ServiceError == "service error"
SelectFirst == "Please select messages first!"
DefaultInstruction == "Answer clearly."

(* ------------------------------- types -------------------------------- *)

NoUser == [id |-> 0, username |-> "", password |-> "", role |-> "none",
           accessibleDocs |-> <<>>]
NoDoc == [id |-> 0, instruction |-> ""]
NoMsg == [id |-> -1, role |-> "none", text |-> ""]
NoFile == [name |-> "", body |-> <<>>]

SeedAdmin == [id |-> 1, username |-> "admin", password |-> "admin",
              role |-> "admin", accessibleDocs |-> <<>>]

(* ------------------------- sequence helpers --------------------------- *)

Range(s) == {s[i] : i \in DOMAIN s}

\* Array.prototype.includes
Includes(s, x) == \E i \in DOMAIN s : s[i] = x

\* Array.prototype.filter(id => id !== x)
Without(s, x) == SelectSeq(s, LAMBDA y : y # x)

(* --------------------------- Storage service -------------------------- *)

\* a localStorage slot: absent (getItem gives null), a string JSON.parse
\* rejects, or the JSON text of a value
Absent == [kind |-> "absent", val |-> <<>>]
Malformed == [kind |-> "malformed", val |-> <<>>]

\* JSON.stringify of a collection
Stringify(v) == [kind |-> "ok", val |-> v]

\* JSON.parse(localStorage.getItem(key) || '[]')
ParseOrEmpty(raw) ==
    [throws |-> raw.kind = "malformed",
     val |-> IF raw.kind = "ok" THEN raw.val ELSE <<>>]

\* Storage.getUsers / Storage.getDocs on a slot
getUsers(raw) == ParseOrEmpty(raw)
getDocs(raw) == ParseOrEmpty(raw)

\* (mutant) the seed is written whatever the collection holds
StorageInitAlways(raw) ==
    IF getUsers(raw).throws THEN raw ELSE Stringify(<<SeedAdmin>>)

\* Storage.init: the slot dc_users afterwards (a throw writes nothing)
StorageInit(raw) ==
    IF getUsers(raw).throws THEN raw
    ELSE IF Len(getUsers(raw).val) = 0 THEN Stringify(<<SeedAdmin>>)
    ELSE raw

\* the slot dc_session
SessionAbsent == [kind |-> "absent", val |-> NoUser]
StringifyUser(u) == [kind |-> "ok", val |-> u]

(* ------------------------ access control model ------------------------ *)

\* (mutant) the comparison made case-insensitive
MatchesIgnoreCase(u, username, password) ==
    LET lower(x) == IF x = "Bob" THEN "bob" ELSE x IN
    lower(u.username) = lower(username) /\ lower(u.password) = lower(password)

\* u.username === username && u.password === password
Matches(u, username, password) ==
    u.username = username /\ u.password = password

\* (mutant) the password is not compared
FindByName(users, username, password) ==
    IF \E i \in DOMAIN users : users[i].username = username
    THEN users[CHOOSE i \in DOMAIN users :
                 /\ users[i].username = username
                 /\ \A j \in 1..(i - 1) : users[j].username # username]
    ELSE NoUser

\* Array.prototype.find: the first record that matches, or NoUser
Find(users, username, password) ==
    IF \E i \in DOMAIN users : Matches(users[i], username, password)
    THEN users[CHOOSE i \in DOMAIN users :
                 /\ Matches(users[i], username, password)
                 /\ \A j \in 1..(i - 1) : ~Matches(users[j], username, password)]
    ELSE NoUser

\* (mutant) the panel lists the admin records too
EveryUser(users) == users

\* users.filter(u => u.role !== 'admin')
NonAdmins(users) == SelectSeq(users, LAMBDA u : u.role # "admin")

\* (mutant) the filter is left out
AllDocs(docs, u) == docs

\* (mutant) the granted documents in the order they were granted
AccessibleDocsInGrantOrder(docs, u) ==
    LET ids == SelectSeq(u.accessibleDocs,
                         LAMBDA id : \E j \in DOMAIN docs : docs[j].id = id)
    IN [k \in DOMAIN ids |->
           docs[CHOOSE j \in DOMAIN docs : docs[j].id = ids[k]]]

\* Storage.getDocs().filter(d => user.accessibleDocs.includes(d.id))
AccessibleDocs(docs, u) ==
    SelectSeq(docs, LAMBDA d : Includes(u.accessibleDocs, d.id))

\* (mutant) the toggle only grants
ToggleDocGrantOnly(acc, did) ==
    IF Includes(acc, did) THEN acc ELSE Append(acc, did)

\* the access toggle on one accessibleDocs array
ToggleDoc(acc, did) ==
    IF Includes(acc, did) THEN Without(acc, did) ELSE Append(acc, did)

\* the access toggle: Storage.getUsers().map(ux => ux.id === u.id ? ... : ux)
Toggle(users, uid, did) ==
    [i \in DOMAIN users |->
        IF users[i].id = uid
        THEN [users[i] EXCEPT !.accessibleDocs = ToggleDoc(@, did)]
        ELSE users[i]]

\* Storage.getUsers().filter(ux => ux.id !== u.id)
RemoveUser(users, uid) == SelectSeq(users, LAMBDA ux : ux.id # uid)

\* the record addUser appends
NewUser(id, name, pass) ==
    [id |-> id, username |-> name, password |-> pass, role |-> "user",
     accessibleDocs |-> <<>>]

\* the record handleUpload appends
NewDoc(id) == [id |-> id, instruction |-> DefaultInstruction]

\* docs.filter(x => x.id !== d.id)
RemoveDoc(docs, did) == SelectSeq(docs, LAMBDA x : x.id # did)

\* docs.map(x => x.id === d.id ? { ...x, instruction } : x)
SetInstruction(docs, did, text) ==
    [i \in DOMAIN docs |->
        IF docs[i].id = did THEN [docs[i] EXCEPT !.instruction = text]
        ELSE docs[i]]

(* ------------------------------- state -------------------------------- *)

VARIABLES
    lsUsers,        \* localStorage slot dc_users
    lsDocs,         \* localStorage slot dc_docs
    lsSession,      \* localStorage slot dc_session
    apiKey,         \* process.env.API_KEY is non-empty (fixed at build time)
    page,           \* "loading": App rendered, mount effect not yet run;
                    \* "ready"; "crashed": an uncaught error unmounted the tree
    user,           \* App state `user` (NoUser = null)
    adminDocs,      \* AdminPanel state `docs`
    adminUsers,     \* AdminPanel state `users`
    pendingCur,     \* handleUpload calls of the mounted panel awaiting the file
    pendingOld,     \* handleUpload calls of unmounted panels awaiting the file
    nextUid,        \* the id Math.random() gives the next user
    nextDid,        \* the id Math.random() gives the next document
    chatDocs,       \* ChatInterface prop `docs`
    selectedDoc,    \* ChatInterface state `selectedDoc` (NoDoc = null)
    messages,       \* ChatInterface state `messages`
    loading,        \* ChatInterface state `loading`
    selectedMsgs,   \* ChatInterface state `selectedMsgs`
    reqs,           \* chatWithAI calls of the mounted chat view not yet settled:
                    \* the document and contents sent, the user message appended
    reqOld,         \* chatWithAI calls of unmounted chat views not yet settled
    clock,          \* Date.now()
    out,            \* what the last step showed: alert, download, uncaught error
    hist            \* history of the last step, for stating the properties

storeVars == <<lsUsers, lsDocs, lsSession>>
idVars == <<nextUid, nextDid>>
adminVars == <<adminDocs, adminUsers, pendingCur>>
chatVars == <<chatDocs, selectedDoc, messages, loading, selectedMsgs, reqs>>
vars == <<lsUsers, lsDocs, lsSession, apiKey, page, user, adminDocs,
          adminUsers, pendingCur, pendingOld, nextUid, nextDid, chatDocs,
          selectedDoc,
          messages, loading, selectedMsgs, reqs, reqOld, clock, out, hist>>

NoOut == [alert |-> "", file |-> NoFile, error |-> ""]
NoTog == [n |-> 0, uid |-> 0, did |-> 0, before |-> <<>>]
\* op: the handler that ran ("" when the properties need not tell); name,
\* pass: what login was given; text: what onSend or an instruction edit was
\* given; did: the document uploaded, deleted or edited; failed: the user
\* message of the call that failed; tog: the run of equal access toggles
NoHist == [op |-> "", name |-> "", pass |-> "", text |-> "", did |-> 0,
           failed |-> NoMsg, tog |-> NoTog]

\* which component App renders
AdminView == page = "ready" /\ user.role = "admin"
ChatView == page = "ready" /\ user # NoUser /\ user.role # "admin"
LoginView == page = "ready" /\ user = NoUser

\* a chatWithAI call that throws for the missing key is settled before the
\* browser handles the next user event
KeylessPending == ~apiKey /\ reqs # <<>>

(* -------------------------------- App --------------------------------- *)

\* what App renders for `user`: the AdminPanel's initial state (its useState
\* initialisers read the store), or the ChatInterface's docs prop and the
\* initial selectedDoc (docs[0] || null); a read that throws while rendering
\* is an uncaught error
Render(u, usersRaw, docsRaw) ==
    IF u = NoUser
    THEN [crash |-> FALSE, adminDocs |-> <<>>, adminUsers |-> <<>>,
          chatDocs |-> <<>>, selectedDoc |-> NoDoc]
    ELSE IF u.role = "admin"
    THEN IF getDocs(docsRaw).throws \/ getUsers(usersRaw).throws
         THEN [crash |-> TRUE, adminDocs |-> <<>>, adminUsers |-> <<>>,
               chatDocs |-> <<>>, selectedDoc |-> NoDoc]
         ELSE [crash |-> FALSE, adminDocs |-> getDocs(docsRaw).val,
               adminUsers |-> NonAdmins(getUsers(usersRaw).val),
               chatDocs |-> <<>>, selectedDoc |-> NoDoc]
    ELSE IF getDocs(docsRaw).throws
    THEN [crash |-> TRUE, adminDocs |-> <<>>, adminUsers |-> <<>>,
          chatDocs |-> <<>>, selectedDoc |-> NoDoc]
    ELSE LET docs == AccessibleDocs(getDocs(docsRaw).val, u) IN
         [crash |-> FALSE, adminDocs |-> <<>>, adminUsers |-> <<>>,
          chatDocs |-> docs,
          selectedDoc |-> IF Len(docs) > 0 THEN docs[1] ELSE NoDoc]

\* setUser(u) from the login view, and the render that follows
Show(u, usersRaw, docsRaw, o) ==
    LET r == Render(u, usersRaw, docsRaw) IN
    /\ page' = IF r.crash THEN "crashed" ELSE "ready"
    /\ user' = IF r.crash THEN NoUser ELSE u
    /\ adminDocs' = r.adminDocs
    /\ adminUsers' = r.adminUsers
    /\ pendingCur' = 0
    /\ chatDocs' = r.chatDocs
    /\ selectedDoc' = r.selectedDoc
    /\ messages' = <<>>
    /\ loading' = FALSE
    /\ selectedMsgs' = {}
    /\ reqs' = <<>>
    /\ out' = IF r.crash THEN [o EXCEPT !.error = "SyntaxError"] ELSE o

\* the components' state once nothing is mounted
Unmounted ==
    /\ adminDocs' = <<>>
    /\ adminUsers' = <<>>
    /\ pendingCur' = 0
    /\ chatDocs' = <<>>
    /\ selectedDoc' = NoDoc
    /\ messages' = <<>>
    /\ loading' = FALSE
    /\ selectedMsgs' = {}
    /\ reqs' = <<>>

\* the mount effect of App: Storage.init(), then restore the saved session
AppMount ==
    /\ page = "loading"
    /\ hist' = [NoHist EXCEPT !.op = "init"]
    /\ IF getUsers(lsUsers).throws
       THEN /\ page' = "crashed"
            /\ out' = [NoOut EXCEPT !.error = "SyntaxError"]
            /\ UNCHANGED <<storeVars, user, adminVars, chatVars>>
       ELSE /\ lsUsers' = StorageInit(lsUsers)
            /\ Show(IF lsSession.kind = "ok" THEN lsSession.val ELSE NoUser,
                    StorageInit(lsUsers), lsDocs, NoOut)
            /\ UNCHANGED <<lsDocs, lsSession>>
    /\ UNCHANGED <<apiKey, pendingOld, idVars, reqOld, clock>>

\* the submit handler of the login form
login(username, password) ==
    /\ LoginView
    /\ hist' = [NoHist EXCEPT !.op = "login", !.name = username,
                              !.pass = password]
    /\ IF getUsers(lsUsers).throws
       THEN /\ out' = [NoOut EXCEPT !.error = "SyntaxError"]
            /\ UNCHANGED <<storeVars, page, user, adminVars, chatVars>>
       ELSE LET found == Find(getUsers(lsUsers).val, username, password) IN
            IF found # NoUser
            THEN /\ lsSession' = StringifyUser(found)
                 /\ Show(found, lsUsers, lsDocs, NoOut)
                 /\ UNCHANGED <<lsUsers, lsDocs>>
            ELSE /\ out' = [NoOut EXCEPT !.alert = InvalidCreds]
                 /\ UNCHANGED <<storeVars, page, user, adminVars, chatVars>>
    /\ UNCHANGED <<apiKey, pendingOld, idVars, reqOld, clock>>

\* (mutant) the logout forgets to remove the dc_session slot
logoutKeepsSnapshot ==
    /\ page = "ready"
    /\ user # NoUser
    /\ ~KeylessPending
    /\ user' = NoUser
    /\ pendingOld' = pendingOld + pendingCur
    /\ reqOld' = reqOld + Len(reqs)
    /\ Unmounted
    /\ out' = NoOut
    /\ hist' = NoHist
    /\ UNCHANGED <<storeVars, apiKey, page, idVars, clock>>

\* the onLogout of AdminPanel and the Logout button of the chat sidebar;
\* what the unmounted view still awaits runs on
logout ==
    /\ page = "ready"
    /\ user # NoUser
    /\ ~KeylessPending
    /\ user' = NoUser
    /\ lsSession' = SessionAbsent
    /\ pendingOld' = pendingOld + pendingCur
    /\ reqOld' = reqOld + Len(reqs)
    /\ Unmounted
    /\ out' = NoOut
    /\ hist' = NoHist
    /\ UNCHANGED <<lsUsers, lsDocs, apiKey, page, idVars, clock>>

\* the user reloads the page: the store stays, everything in memory goes
Reload ==
    /\ page # "loading"
    /\ ~KeylessPending
    /\ page' = "loading"
    /\ user' = NoUser
    /\ pendingOld' = 0
    /\ reqOld' = 0
    /\ Unmounted
    /\ out' = NoOut
    /\ hist' = NoHist
    /\ UNCHANGED <<storeVars, apiKey, idVars, clock>>

(* ----------------------------- AdminPanel ----------------------------- *)

\* documents that may still be uploaded
DocsLeft == MaxDocs + 11 - nextDid - pendingCur - pendingOld

\* handleUpload up to its first await: a file was chosen and is being read
StartUpload ==
    /\ AdminView
    /\ DocsLeft > 0
    /\ pendingCur' = pendingCur + 1
    /\ out' = NoOut
    /\ hist' = NoHist
    /\ UNCHANGED <<storeVars, apiKey, page, user, adminDocs, adminUsers,
                   pendingOld, idVars, chatVars, reqOld, clock>>

\* handleUpload after the text is read, in the panel that started it
FinishUpload ==
    /\ pendingCur > 0
    /\ LET nd == Append(getDocs(lsDocs).val, NewDoc(nextDid)) IN
       /\ lsDocs' = Stringify(nd)
       /\ adminDocs' = nd
    /\ pendingCur' = pendingCur - 1
    /\ nextDid' = nextDid + 1
    /\ UNCHANGED nextUid
    /\ out' = NoOut
    /\ hist' = [NoHist EXCEPT !.op = "upload", !.did = nextDid]
    /\ UNCHANGED <<lsUsers, lsSession, apiKey, page, user, adminUsers,
                   pendingOld, chatVars, reqOld, clock>>

\* handleUpload after the text is read, its panel unmounted meanwhile:
\* the store is written, setDocs has no component to update
FinishOldUpload ==
    /\ pendingOld > 0
    /\ lsDocs' = Stringify(Append(getDocs(lsDocs).val, NewDoc(nextDid)))
    /\ pendingOld' = pendingOld - 1
    /\ nextDid' = nextDid + 1
    /\ UNCHANGED nextUid
    /\ out' = NoOut
    /\ hist' = NoHist
    /\ UNCHANGED <<lsUsers, lsSession, apiKey, page, user, adminVars,
                   chatVars, reqOld, clock>>

\* (mutant) the trash button updates the list shown but saves nothing
deleteDocUnsaved(d) ==
    /\ AdminView
    /\ adminDocs' = RemoveDoc(adminDocs, d.id)
    /\ out' = NoOut
    /\ hist' = [NoHist EXCEPT !.op = "deleteDoc", !.did = d.id]
    /\ UNCHANGED <<storeVars, apiKey, page, user, adminUsers,
                   pendingCur, pendingOld, idVars, chatVars, reqOld, clock>>

\* the trash button of a document card
deleteDoc(d) ==
    /\ AdminView
    /\ LET nd == RemoveDoc(adminDocs, d.id) IN
       /\ lsDocs' = Stringify(nd)
       /\ adminDocs' = nd
    /\ out' = NoOut
    /\ hist' = [NoHist EXCEPT !.op = "deleteDoc", !.did = d.id]
    /\ UNCHANGED <<lsUsers, lsSession, apiKey, page, user, adminUsers,
                   pendingCur, pendingOld, idVars, chatVars, reqOld, clock>>

\* onBlur of a document card's instruction textarea
editInstruction(d, text) ==
    /\ AdminView
    /\ LET nd == SetInstruction(adminDocs, d.id, text) IN
       /\ lsDocs' = Stringify(nd)
       /\ adminDocs' = nd
    /\ out' = NoOut
    /\ hist' = [NoHist EXCEPT !.op = "editDoc", !.did = d.id,
                              !.text = text]
    /\ UNCHANGED <<lsUsers, lsSession, apiKey, page, user, adminUsers,
                   pendingCur, pendingOld, idVars, chatVars, reqOld, clock>>

\* addUser with both prompts answered
addUser(name, pass) ==
    /\ AdminView
    /\ nextUid <= MaxUsers + 1
    /\ LET nu == Append(getUsers(lsUsers).val, NewUser(nextUid, name, pass)) IN
       /\ lsUsers' = Stringify(nu)
       /\ adminUsers' = NonAdmins(nu)
    /\ nextUid' = nextUid + 1
    /\ UNCHANGED nextDid
    /\ out' = NoOut
    /\ hist' = NoHist
    /\ UNCHANGED <<lsDocs, lsSession, apiKey, page, user, adminDocs,
                   pendingCur, pendingOld, chatVars, reqOld, clock>>

\* the access button of document d in the row of user u
toggleAccess(u, d) ==
    /\ AdminView
    /\ LET nu == Toggle(getUsers(lsUsers).val, u.id, d.id) IN
       /\ lsUsers' = Stringify(nu)
       /\ adminUsers' = NonAdmins(nu)
    /\ out' = NoOut
    /\ hist' = [NoHist EXCEPT !.op = "toggle", !.tog =
                  IF hist.tog.n = 1 /\ hist.tog.uid = u.id /\ hist.tog.did = d.id
                  THEN [hist.tog EXCEPT !.n = 2]
                  ELSE [n |-> 1, uid |-> u.id, did |-> d.id,
                        before |-> getUsers(lsUsers).val]]
    /\ UNCHANGED <<lsDocs, lsSession, apiKey, page, user, adminDocs,
                   pendingCur, pendingOld, idVars, chatVars, reqOld, clock>>

\* the trash button in the row of user u
deleteUser(u) ==
    /\ AdminView
    /\ LET nu == RemoveUser(getUsers(lsUsers).val, u.id) IN
       /\ lsUsers' = Stringify(nu)
       /\ adminUsers' = NonAdmins(nu)
    /\ out' = NoOut
    /\ hist' = NoHist
    /\ UNCHANGED <<lsDocs, lsSession, apiKey, page, user, adminDocs,
                   pendingCur, pendingOld, idVars, chatVars, reqOld, clock>>

Admin ==
    \/ StartUpload
    \/ FinishUpload
    \/ FinishOldUpload
    \/ \E i \in DOMAIN adminDocs : deleteDoc(adminDocs[i])
    \/ \E i \in DOMAIN adminDocs : \E text \in Instructions :
          editInstruction(adminDocs[i], text)
    \/ \E name \in AddNames : \E pass \in AddPwds : addUser(name, pass)
    \/ \E i \in DOMAIN adminUsers : \E j \in DOMAIN adminDocs :
          toggleAccess(adminUsers[i], adminDocs[j])
    \/ \E i \in DOMAIN adminUsers : deleteUser(adminUsers[i])

(* ---------------------------- ChatInterface --------------------------- *)

\* String.prototype.trim on the prompts typed
Trim(text) == IF text \in {"", " "} THEN "" ELSE text

\* String.prototype.toUpperCase on a role
ToUpperCase(role) == IF role = "user" THEN "USER" ELSE "MODEL"

\* the message onSend appends at once
UserMsg(now, text) == [id |-> now, role |-> "user", text |-> text]

\* the message onSend appends when chatWithAI resolves
ModelMsg(now, text) == [id |-> now + 1, role |-> "model", text |-> text]

\* (mutant) the guard does not look at `loading`
DroppedIgnoringBusy(text, doc, busy) == Trim(text) = "" \/ doc = NoDoc

\* the guard of onSend: the submit is dropped
Dropped(text, doc, busy) == Trim(text) = "" \/ doc = NoDoc \/ busy

\* (mutant) history already holds the optimistic user message
ContentsPromptTwice(history, prompt) ==
    Append(Append([i \in DOMAIN history |->
                      [role |-> history[i].role, text |-> history[i].text]],
                  [role |-> "user", text |-> prompt]),
           [role |-> "user", text |-> prompt])

\* the contents array chatWithAI sends: history, then the prompt
Contents(history, prompt) ==
    Append([i \in DOMAIN history |->
               [role |-> history[i].role, text |-> history[i].text]],
           [role |-> "user", text |-> prompt])

\* messages.filter(m => selectedMsgs.has(m.id))
Selected(msgs, sel) == SelectSeq(msgs, LAMBDA m : m.id \in sel)

\* prev.filter(m => !selectedMsgs.has(m.id))
Unselected(msgs, sel) == SelectSeq(msgs, LAMBDA m : m.id \notin sel)

\* the checkbox of a message: n.has(id) ? n.delete(id) : n.add(id)
ToggleMsg(sel, id) == IF id \in sel THEN sel \ {id} ELSE sel \cup {id}

\* (mutant) the empty list is not rejected
ExportResultUnchecked(msgs, sel, format) ==
    LET list == Selected(msgs, sel) IN
    [alert |-> "",
     file |-> [name |-> IF format = "pdf" THEN "chat.pdf" ELSE "chat.docx",
               body |-> [i \in DOMAIN list |-> <<list[i].role, list[i].text>>]]]

\* exportChat: the alert it shows and the file it offers for download
ExportResult(msgs, sel, format) ==
    LET list == Selected(msgs, sel) IN
    IF Len(list) = 0
    THEN [alert |-> SelectFirst, file |-> NoFile]
    ELSE IF format = "pdf"
    THEN [alert |-> "",
          file |-> [name |-> "chat.pdf",
                    body |-> [i \in DOMAIN list |->
                                <<"[", list[i].role, "] ", list[i].text>>]]]
    ELSE [alert |-> "",
          file |-> [name |-> "chat.docx",
                    body |-> [i \in DOMAIN list |->
                                <<ToUpperCase(list[i].role), ": ",
                                  list[i].text>>]]]

\* s without its i-th element
Drop(s, i) == [j \in 1..(Len(s) - 1) |-> IF j < i THEN s[j] ELSE s[j + 1]]

\* onSend: Enter in the input, or the send button
onSend(text) ==
    /\ ChatView
    /\ ~KeylessPending
    /\ IF Dropped(text, selectedDoc, loading)
       THEN UNCHANGED <<messages, loading, reqs>>
       ELSE /\ Len(messages) < MaxMsgs
            /\ Len(reqs) < MaxReqs
            /\ reqOld < MaxOrphan
            /\ messages' = Append(messages, UserMsg(clock, text))
            /\ loading' = TRUE
            /\ reqs' = Append(reqs, [doc |-> selectedDoc,
                                     contents |-> Contents(messages, text),
                                     userMsg |-> UserMsg(clock, text)])
    /\ out' = NoOut
    /\ hist' = [NoHist EXCEPT !.text = text,
                   !.op = IF Dropped(text, selectedDoc, loading) THEN "drop"
                          ELSE "send"]
    /\ UNCHANGED <<storeVars, apiKey, page, user, adminVars, pendingOld,
                   idVars, chatDocs, selectedDoc, selectedMsgs, reqOld, clock>>

\* (mutant) the response is appended but setLoading(false) is not reached
AiSuccessStaysSending(i) ==
    /\ apiKey
    /\ messages' = Append(messages, ModelMsg(clock, "ok"))
    /\ reqs' = Drop(reqs, i)
    /\ out' = NoOut
    /\ hist' = [NoHist EXCEPT !.op = "reply"]
    /\ UNCHANGED <<storeVars, apiKey, page, user, adminVars, pendingOld,
                   idVars, chatDocs, selectedDoc, loading, selectedMsgs,
                   reqOld, clock>>

\* chatWithAI resolves: the rest of the try block, then finally
AiSuccess(i) ==
    /\ apiKey
    /\ messages' = Append(messages, ModelMsg(clock, "ok"))
    /\ loading' = FALSE
    /\ reqs' = Drop(reqs, i)
    /\ out' = NoOut
    /\ hist' = [NoHist EXCEPT !.op = "reply"]
    /\ UNCHANGED <<storeVars, apiKey, page, user, adminVars, pendingOld,
                   idVars, chatDocs, selectedDoc, selectedMsgs, reqOld, clock>>

\* (mutant) the failure takes the optimistic user message back
AiFailRollback(i) ==
    /\ messages' = SelectSeq(messages, LAMBDA m : m # reqs[i].userMsg)
    /\ loading' = FALSE
    /\ reqs' = Drop(reqs, i)
    /\ out' = [NoOut EXCEPT !.alert = IF apiKey THEN ServiceError
                                      ELSE KeyMissing]
    /\ hist' = [NoHist EXCEPT !.op = "fail", !.failed = reqs[i].userMsg]
    /\ UNCHANGED <<storeVars, apiKey, page, user, adminVars, pendingOld,
                   idVars, chatDocs, selectedDoc, selectedMsgs, reqOld, clock>>

\* chatWithAI rejects (no key, or the service fails): catch, then finally
AiFail(i) ==
    /\ loading' = FALSE
    /\ reqs' = Drop(reqs, i)
    /\ out' = [NoOut EXCEPT !.alert = IF apiKey THEN ServiceError
                                      ELSE KeyMissing]
    /\ hist' = [NoHist EXCEPT !.op = "fail", !.failed = reqs[i].userMsg]
    /\ UNCHANGED <<storeVars, apiKey, page, user, adminVars, pendingOld,
                   idVars, chatDocs, selectedDoc, messages, selectedMsgs,
                   reqOld, clock>>

\* a call of an unmounted view resolves: its setMessages and setLoading
\* have no component to update
OldSuccess ==
    /\ reqOld > 0
    /\ apiKey
    /\ reqOld' = reqOld - 1
    /\ out' = NoOut
    /\ hist' = NoHist
    /\ UNCHANGED <<storeVars, apiKey, page, user, adminVars, pendingOld,
                   idVars, chatVars, clock>>

\* a call of an unmounted view rejects: the alert is still shown
OldFail ==
    /\ reqOld > 0
    /\ reqOld' = reqOld - 1
    /\ out' = [NoOut EXCEPT !.alert = IF apiKey THEN ServiceError
                                      ELSE KeyMissing]
    /\ hist' = NoHist
    /\ UNCHANGED <<storeVars, apiKey, page, user, adminVars, pendingOld,
                   idVars, chatVars, clock>>

\* the checkbox of message m
toggleSelect(m) ==
    /\ ChatView
    /\ ~KeylessPending
    /\ selectedMsgs' = ToggleMsg(selectedMsgs, m.id)
    /\ out' = NoOut
    /\ hist' = NoHist
    /\ UNCHANGED <<storeVars, apiKey, page, user, adminVars, pendingOld,
                   idVars, chatDocs, selectedDoc, messages, loading, reqs,
                   reqOld, clock>>

\* the toolbar is rendered while selectedMsgs.size > 0
Toolbar == ChatView /\ ~KeylessPending /\ selectedMsgs # {}

\* the Delete button of the toolbar
deleteSelected ==
    /\ Toolbar
    /\ messages' = Unselected(messages, selectedMsgs)
    /\ selectedMsgs' = {}
    /\ out' = NoOut
    /\ hist' = NoHist
    /\ UNCHANGED <<storeVars, apiKey, page, user, adminVars, pendingOld,
                   idVars, chatDocs, selectedDoc, loading, reqs, reqOld,
                   clock>>

\* the Cancel button of the toolbar
cancelSelection ==
    /\ Toolbar
    /\ selectedMsgs' = {}
    /\ out' = NoOut
    /\ hist' = NoHist
    /\ UNCHANGED <<storeVars, apiKey, page, user, adminVars, pendingOld,
                   idVars, chatDocs, selectedDoc, messages, loading, reqs,
                   reqOld, clock>>

\* exportChat(format)
exportChat(format) ==
    /\ LET r == ExportResult(messages, selectedMsgs, format) IN
       out' = [NoOut EXCEPT !.alert = r.alert, !.file = r.file]
    /\ hist' = [NoHist EXCEPT !.op = "export"]
    /\ UNCHANGED <<storeVars, apiKey, page, user, adminVars, pendingOld,
                   idVars, chatVars, reqOld, clock>>

\* the Export PDF and Export DOCX buttons of the toolbar
clickExport(format) ==
    /\ Toolbar
    /\ exportChat(format)

\* onChange of the document selector: docs.find(d => d.id === value) || null
selectDoc(d) ==
    /\ ChatView
    /\ ~KeylessPending
    /\ selectedDoc' = chatDocs[CHOOSE i \in DOMAIN chatDocs :
                          /\ chatDocs[i].id = d.id
                          /\ \A j \in 1..(i - 1) : chatDocs[j].id # d.id]
    /\ out' = NoOut
    /\ hist' = NoHist
    /\ UNCHANGED <<storeVars, apiKey, page, user, adminVars, pendingOld,
                   idVars, chatDocs, messages, loading, selectedMsgs, reqs,
                   reqOld, clock>>

\* time passes
Tick ==
    /\ clock < MaxClock
    /\ clock' = clock + 1
    /\ UNCHANGED <<storeVars, apiKey, page, user, adminVars, pendingOld,
                   idVars, chatVars, reqOld, out, hist>>

Chat ==
    \/ \E text \in Prompts : onSend(text)
    \/ \E i \in DOMAIN reqs : AiSuccess(i)
    \/ \E i \in DOMAIN reqs : AiFail(i)
    \/ OldSuccess
    \/ OldFail
    \/ \E i \in DOMAIN messages : toggleSelect(messages[i])
    \/ deleteSelected
    \/ cancelSelection
    \/ \E i \in DOMAIN chatDocs : selectDoc(chatDocs[i])
    \/ Tick

(* --------------------------- specification ---------------------------- *)

\* the first visit: an empty store, App rendered, its mount effect pending
\* (the key is read by chatWithAI only; InitChat below draws it)
Init ==
    /\ lsUsers = Absent
    /\ lsDocs = Absent
    /\ lsSession = SessionAbsent
    /\ apiKey = TRUE
    /\ page = "loading"
    /\ user = NoUser
    /\ adminDocs = <<>>
    /\ adminUsers = <<>>
    /\ pendingCur = 0
    /\ pendingOld = 0
    /\ nextUid = 2
    /\ nextDid = 11
    /\ chatDocs = <<>>
    /\ selectedDoc = NoDoc
    /\ messages = <<>>
    /\ loading = FALSE
    /\ selectedMsgs = {}
    /\ reqs = <<>>
    /\ reqOld = 0
    /\ clock = 0
    /\ out = NoOut
    /\ hist = NoHist

\* App: session restore, login, logout, reload
App ==
    \/ AppMount
    \/ \E username \in LoginNames : \E password \in LoginPwds :
          login(username, password)
    \/ logout
    \/ Reload

\* The store, the session and the access control model: App, the AdminPanel
\* and the binding of the chat view to a document.  The conversation of a
\* mounted chat view reads and writes none of the store, the session or
\* `user`; it is specified by SpecChat below.
Next ==
    \/ App
    \/ Admin
    \/ \E i \in DOMAIN chatDocs : selectDoc(chatDocs[i])

Spec == Init /\ [][Next]_vars

(* --------------------------- one admin panel -------------------------- *)

\* The admin's first login: the panel is mounted on the seeded store.
InitPanel ==
    /\ lsUsers = Stringify(<<SeedAdmin>>)
    /\ lsDocs = Absent
    /\ lsSession = StringifyUser(SeedAdmin)
    /\ apiKey = TRUE
    /\ page = "ready"
    /\ user = SeedAdmin
    /\ adminDocs = Render(SeedAdmin, lsUsers, lsDocs).adminDocs
    /\ adminUsers = Render(SeedAdmin, lsUsers, lsDocs).adminUsers
    /\ pendingCur = 0
    /\ pendingOld = 0
    /\ nextUid = 2
    /\ nextDid = 11
    /\ chatDocs = <<>>
    /\ selectedDoc = NoDoc
    /\ messages = <<>>
    /\ loading = FALSE
    /\ selectedMsgs = {}
    /\ reqs = <<>>
    /\ reqOld = 0
    /\ clock = 0
    /\ out = NoOut
    /\ hist = NoHist

\* the handlers of the panel, and its uploads completing, while it stays
\* mounted
NextPanel ==
    \/ StartUpload
    \/ FinishUpload
    \/ \E i \in DOMAIN adminDocs : deleteDoc(adminDocs[i])
    \/ \E i \in DOMAIN adminDocs : \E text \in Instructions :
          editInstruction(adminDocs[i], text)
    \/ \E name \in AddNames : \E pass \in AddPwds : addUser(name, pass)
    \/ \E i \in DOMAIN adminUsers : \E j \in DOMAIN adminDocs :
          toggleAccess(adminUsers[i], adminDocs[j])
    \/ \E i \in DOMAIN adminUsers : deleteUser(adminUsers[i])

SpecPanel == InitPanel /\ [][NextPanel]_vars

(* ------------------------- the conversation --------------------------- *)

\* an accessibleDocs array: the ids of S in the order they were granted,
\* here by ascending id
RECURSIVE Ascending(_)
Ascending(S) ==
    IF S = {} THEN <<>>
    ELSE LET x == CHOOSE y \in S : \A z \in S : y <= z IN
         <<x>> \o Ascending(S \ {x})

\* the documents the admin has uploaded
Uploaded == [i \in 1..MaxDocs |-> NewDoc(i + 10)]

\* the user the chat view belongs to
Bob(S) == [NewUser(2, "bob", "pw") EXCEPT !.accessibleDocs = Ascending(S)]

\* A chat view just mounted: the admin has uploaded MaxDocs documents, added
\* bob, granted him the documents of S and logged out, and bob has logged in.
InitChat ==
    \E S \in SUBSET (11..(MaxDocs + 10)) :
       /\ lsUsers = Stringify(<<SeedAdmin, Bob(S)>>)
       /\ lsDocs = Stringify(Uploaded)
       /\ lsSession = StringifyUser(Bob(S))
       /\ apiKey \in BOOLEAN
       /\ page = "ready"
       /\ user = Bob(S)
       /\ adminDocs = <<>>
       /\ adminUsers = <<>>
       /\ pendingCur = 0
       /\ pendingOld = 0
       /\ nextUid = 3
       /\ nextDid = MaxDocs + 11
       /\ chatDocs = Render(Bob(S), lsUsers, lsDocs).chatDocs
       /\ selectedDoc = Render(Bob(S), lsUsers, lsDocs).selectedDoc
       /\ messages = <<>>
       /\ loading = FALSE
       /\ selectedMsgs = {}
       /\ reqs = <<>>
       /\ reqOld = 0
       /\ clock = 0
       /\ out = NoOut
       /\ hist = NoHist

NextChat ==
    \/ App
    \/ Chat

SpecChat == InitChat /\ [][NextChat]_vars

\* the promise of an outstanding chatWithAI call settles
Settle ==
    \E i \in DOMAIN reqs : AiSuccess(i) \/ AiFail(i)

\* the handlers and callbacks of one mounted chat view
NextEngine ==
    \/ \E text \in Prompts : onSend(text)
    \/ Settle
    \/ \E i \in DOMAIN messages : toggleSelect(messages[i])
    \/ deleteSelected
    \/ cancelSelection
    \/ \E i \in DOMAIN chatDocs : selectDoc(chatDocs[i])
    \/ Tick

\* One chat session from mount on, every request completing or failing in
\* the end (there is no cancellation and no timeout).
SpecEngine == InitChat /\ [][NextEngine]_vars /\ WF_vars(Settle)

(* ------------------------------ the store ----------------------------- *)

\* sequences over S of length at most n
RECURSIVE SeqsUpTo(_, _)
SeqsUpTo(S, n) ==
    IF n = 0 THEN {<<>>}
    ELSE SeqsUpTo(S, n - 1) \cup
         {Append(t, x) : t \in {u \in SeqsUpTo(S, n - 1) : Len(u) = n - 1},
                         x \in S}

\* what the slot dc_users may hold when the page is opened
StoredUsers ==
    {Absent, Malformed} \cup
    {Stringify(us) :
        us \in SeqsUpTo({SeedAdmin, NewUser(2, "bob", "pw")}, MaxStored)}

\* The page opened on a store left by earlier visits or edited by hand.
InitStore ==
    /\ lsUsers \in StoredUsers
    /\ lsDocs \in {Absent, Malformed}
    /\ lsSession = SessionAbsent
    /\ apiKey = TRUE
    /\ page = "loading"
    /\ user = NoUser
    /\ adminDocs = <<>>
    /\ adminUsers = <<>>
    /\ pendingCur = 0
    /\ pendingOld = 0
    /\ nextUid = 3
    /\ nextDid = 11
    /\ chatDocs = <<>>
    /\ selectedDoc = NoDoc
    /\ messages = <<>>
    /\ loading = FALSE
    /\ selectedMsgs = {}
    /\ reqs = <<>>
    /\ reqOld = 0
    /\ clock = 0
    /\ out = NoOut
    /\ hist = NoHist

SpecStore == InitStore /\ [][App]_vars

(* ----------------------------- the export ----------------------------- *)

\* the logs exportChat is applied to
ExportLogs ==
    SeqsUpTo({UserMsg(0, "hi"), ModelMsg(0, "ok"), UserMsg(1, "hi")},
             MaxExportMsgs)

\* A chat view holding a log and a selection of its messages.
InitExport ==
    /\ lsUsers = Stringify(<<SeedAdmin, Bob({11})>>)
    /\ lsDocs = Stringify(Uploaded)
    /\ lsSession = StringifyUser(Bob({11}))
    /\ apiKey = TRUE
    /\ page = "ready"
    /\ user = Bob({11})
    /\ adminDocs = <<>>
    /\ adminUsers = <<>>
    /\ pendingCur = 0
    /\ pendingOld = 0
    /\ nextUid = 3
    /\ nextDid = MaxDocs + 11
    /\ chatDocs = Render(Bob({11}), lsUsers, lsDocs).chatDocs
    /\ selectedDoc = Render(Bob({11}), lsUsers, lsDocs).selectedDoc
    /\ messages \in ExportLogs
    /\ loading = FALSE
    /\ selectedMsgs \in SUBSET {messages[i].id : i \in DOMAIN messages}
    /\ reqs = <<>>
    /\ reqOld = 0
    /\ clock = 0
    /\ out = NoOut
    /\ hist = NoHist

\* the selection, the toolbar's export buttons, and exportChat called as a
\* function (the toolbar offers it only while something is selected)
NextExport ==
    \/ \E i \in DOMAIN messages : toggleSelect(messages[i])
    \/ cancelSelection
    \/ \E format \in Formats : clickExport(format)
    \/ \E format \in Formats : exportChat(format)

SpecExport == InitExport /\ [][NextExport]_vars

(* ------------------------------ properties ---------------------------- *)

\* the stored collections as the properties read them
StoredUserList == IF lsUsers.kind = "ok" THEN lsUsers.val ELSE <<>>
StoredDocList == IF lsDocs.kind = "ok" THEN lsDocs.val ELSE <<>>

\* some stored record has exactly this username and this password
SomeRecordHas(name, pass) ==
    \E i \in DOMAIN StoredUserList :
       /\ StoredUserList[i].username = name
       /\ StoredUserList[i].password = pass

\* C1: a login sets the session user if and only if some stored record has
\* exactly the username and the password typed; otherwise the alert for
\* invalid credentials is shown and `user` and the dc_session slot stay as
\* they were.
C1_LoginIffMatch ==
    [][hist'.op = "login" =>
         IF SomeRecordHas(hist'.name, hist'.pass)
         THEN /\ user' # NoUser
              /\ user'.username = hist'.name
              /\ user'.password = hist'.pass
              /\ lsSession'.kind = "ok"
              /\ lsSession'.val = user'
              /\ out'.alert = ""
         ELSE /\ out'.alert = "Invalid Credentials (Hint: admin/admin)"
              /\ user' = user
              /\ lsSession' = lsSession]_vars

\* a login that fails on the case of the username alone
C1_Witness ==
    /\ hist.op = "login"
    /\ hist.name = "Bob"
    /\ out.alert = InvalidCreds
    /\ user = NoUser
    /\ SomeRecordHas("bob", hist.pass)

\* C2: at most one AI request of a chat view is outstanding, the view is
\* Sending exactly while it is, and a submit made meanwhile issues no
\* request and appends no message.
C2_OneRequest ==
    /\ [](Len(reqs) <= 1 /\ (loading <=> reqs # <<>>))
    /\ [][(hist'.op \in {"send", "drop"} /\ (loading \/ reqs # <<>>)) =>
             (reqs' = reqs /\ messages' = messages /\ loading' = loading)]_vars

\* a prompt that would be sent was submitted while Sending
C2_Witness ==
    /\ hist.op = "drop"
    /\ hist.text = "hi"
    /\ selectedDoc # NoDoc
    /\ loading
    /\ Len(reqs) = 1

\* C3 as stated: after a failed AI call the user message of that submit is
\* in the log, the error is shown and the view is Idle.
C3_Original ==
    hist.op = "fail" =>
       /\ hist.failed \in Range(messages)
       /\ out.alert \in {"API_KEY missing in Environment!", ServiceError}
       /\ ~loading

\* C3 as amended: a failed AI call removes no message and appends none (the
\* user message of that submit is still in the log unless the user deleted
\* it while the request was outstanding, which a missing key leaves no time
\* for), the error is shown and the view is Idle.
C3_FailKeepsLog ==
    [][hist'.op = "fail" =>
         /\ messages' = messages
         /\ ~apiKey => hist'.failed \in Range(messages')
         /\ out'.alert = IF apiKey THEN ServiceError
                         ELSE "API_KEY missing in Environment!"
         /\ ~loading']_vars

\* the service failed and the user message is still in the log
C3_Witness ==
    /\ hist.op = "fail"
    /\ out.alert = ServiceError
    /\ hist.failed \in Range(messages)
    /\ ~loading

\* C4: every document id in a stored user's accessibleDocs is the id of a
\* stored document.
C4_RefIntegrity ==
    \A i \in DOMAIN StoredUserList :
       \A k \in DOMAIN StoredUserList[i].accessibleDocs :
          \E j \in DOMAIN StoredDocList :
             StoredDocList[j].id = StoredUserList[i].accessibleDocs[k]

\* C5: the chat of a non-admin session is bound only to a document whose id
\* is in the accessibleDocs of that user's stored record.
C5_BoundDocAccessible ==
    (page = "ready" /\ user.role = "user" /\ selectedDoc # NoDoc) =>
       \E i \in DOMAIN StoredUserList :
          /\ StoredUserList[i].id = user.id
          /\ \E k \in DOMAIN StoredUserList[i].accessibleDocs :
                StoredUserList[i].accessibleDocs[k] = selectedDoc.id

\* a chat bound to a document while another stored document is not granted
C5_Witness ==
    /\ page = "ready"
    /\ user.role = "user"
    /\ selectedDoc # NoDoc
    /\ \E j \in DOMAIN StoredDocList :
          \A k \in DOMAIN user.accessibleDocs :
             user.accessibleDocs[k] # StoredDocList[j].id

\* C6: the dc_session slot, when present, holds one stored user record; it
\* is written by a login only, with the record of a user that has the
\* username and the password typed at that login.
C6_SessionOneUser ==
    /\ [](lsSession.kind = "ok" =>
            \E i \in DOMAIN StoredUserList : StoredUserList[i] = lsSession.val)
    /\ [][(lsSession' # lsSession /\ lsSession'.kind = "ok") =>
             /\ hist'.op = "login"
             /\ lsSession'.val.username = hist'.name
             /\ lsSession'.val.password = hist'.pass]_vars

\* a session of a non-admin user, restored by a reload, other records stored
C6_Witness ==
    /\ lsSession.kind = "ok"
    /\ lsSession.val.role = "user"
    /\ hist.op = "init"
    /\ user = lsSession.val
    /\ Len(StoredUserList) >= 2

\* C7: the access toggle for (u, d) applied twice in a row leaves u with the
\* documents it had and every other stored record as it was.
C7_ToggleTwice ==
    hist.tog.n = 2 =>
       /\ Len(StoredUserList) = Len(hist.tog.before)
       /\ \A i \in DOMAIN StoredUserList :
             IF hist.tog.before[i].id = hist.tog.uid
             THEN /\ Range(StoredUserList[i].accessibleDocs) =
                        Range(hist.tog.before[i].accessibleDocs)
                  /\ Len(StoredUserList[i].accessibleDocs) =
                        Len(hist.tog.before[i].accessibleDocs)
                  /\ [StoredUserList[i] EXCEPT !.accessibleDocs = <<>>] =
                        [hist.tog.before[i] EXCEPT !.accessibleDocs = <<>>]
             ELSE StoredUserList[i] = hist.tog.before[i]

\* two equal toggles that revoked and granted again: the array is reordered
C7_Witness ==
    /\ hist.tog.n = 2
    /\ StoredUserList # hist.tog.before

\* C8: Storage.init on an absent or empty dc_users writes exactly the admin
\* record; on a non-empty one it writes nothing; after it the collection is
\* non-empty, so that running it again changes nothing.
C8_InitSeedsOnce ==
    [][(hist'.op = "init" /\ lsUsers.kind # "malformed") =>
         /\ IF Len(StoredUserList) = 0
            THEN lsUsers' = [kind |-> "ok", val |->
                    <<[id |-> 1, username |-> "admin", password |-> "admin",
                       role |-> "admin", accessibleDocs |-> <<>>]>>]
            ELSE lsUsers' = lsUsers
         /\ lsUsers'.kind = "ok"
         /\ Len(lsUsers'.val) > 0]_vars

\* the mount effect has seeded an empty collection
C8_Witness ==
    /\ hist.op = "init"
    /\ page = "ready"
    /\ lsUsers = Stringify(<<SeedAdmin>>)
    /\ lsDocs = Absent

\* C9: exportChat with no message of the log selected offers no file, shows
\* the notice, and leaves the log and the selection as they were.
C9_ExportNothingSelected ==
    [][(hist'.op = "export" /\
        \A i \in DOMAIN messages : messages[i].id \notin selectedMsgs) =>
         /\ out'.file = NoFile
         /\ out'.alert = "Please select messages first!"
         /\ messages' = messages
         /\ selectedMsgs' = selectedMsgs]_vars

\* exportChat was applied to a log with nothing selected
C9_Witness ==
    /\ hist.op = "export"
    /\ messages # <<>>
    /\ selectedMsgs = {}
    /\ out.alert = SelectFirst
    /\ out.file = NoFile

\* C10: reading the store raises no error: Storage.init, login and the
\* render that follows complete whatever the slots hold.
C10_NoErrorOnMalformed ==
    /\ out.error = ""
    /\ page # "crashed"

\* C11: when the document selection of a chat view changes, the log is
\* empty right after the change, and a response is appended only to the log
\* of the document it was asked about.
C11_LogDiscardedOnSelect ==
    /\ [][(ChatView /\ ChatView' /\ selectedDoc' # selectedDoc) =>
             messages' = <<>>]_vars
    /\ [][hist'.op = "reply" =>
             \A i \in DOMAIN reqs : reqs[i].doc = selectedDoc]_vars

\* C12: once the mount effect has run, the in-memory user is non-null
\* exactly when a session snapshot is stored, and the snapshot is that user;
\* a login stores the snapshot of the user it sets, a logout removes it and
\* sets the user to null, and a reload restores the user of the snapshot, or
\* shows the login view when none is stored.
C12_SessionMatchesUser ==
    /\ [](page = "ready" =>
            /\ user # NoUser <=> lsSession.kind = "ok"
            /\ user # NoUser => lsSession.val = user)
    /\ [][hist'.op = "init" =>
             /\ page' = "ready"
             /\ lsSession' = lsSession
             /\ user' = IF lsSession.kind = "ok" THEN lsSession.val
                        ELSE NoUser]_vars
    /\ [][(page = "ready" /\ page' = "ready" /\ user # NoUser
             /\ user' = NoUser) =>
             lsSession'.kind = "absent"]_vars

\* a reload has restored the admin's session
C12_Witness ==
    /\ hist.op = "init"
    /\ page = "ready"
    /\ user.role = "admin"
    /\ lsSession.kind = "ok"
    /\ lsSession.val = user
    /\ Len(StoredUserList) >= 2

\* C13: the ids of the messages in the log are pairwise distinct, whatever
\* the times of the submits and of the responses.
C13_DistinctIds ==
    \A i \in DOMAIN messages : \A j \in DOMAIN messages :
       i # j => messages[i].id # messages[j].id

\* C14: the docs handed to the chat view of a non-admin user are the stored
\* documents whose id is in the user's accessibleDocs: none outside the set,
\* none of the set missing, in the order of the stored collection.
C14_ChatDocsFiltered ==
    ChatView =>
       /\ \A i \in DOMAIN chatDocs :
             /\ \E p \in DOMAIN StoredDocList : StoredDocList[p] = chatDocs[i]
             /\ \E k \in DOMAIN user.accessibleDocs :
                   user.accessibleDocs[k] = chatDocs[i].id
       /\ \A p \in DOMAIN StoredDocList :
             (\E k \in DOMAIN user.accessibleDocs :
                 user.accessibleDocs[k] = StoredDocList[p].id) =>
             \E i \in DOMAIN chatDocs : chatDocs[i] = StoredDocList[p]
       /\ \A i \in DOMAIN chatDocs : \A j \in DOMAIN chatDocs :
             i < j => \E p \in DOMAIN StoredDocList :
                         \E q \in DOMAIN StoredDocList :
                            /\ p < q
                            /\ StoredDocList[p] = chatDocs[i]
                            /\ StoredDocList[q] = chatDocs[j]

\* the user was granted the second stored document before the first
C14_Witness ==
    /\ ChatView
    /\ Len(user.accessibleDocs) = 2
    /\ Len(chatDocs) = 2
    /\ user.accessibleDocs[1] = chatDocs[2].id
    /\ user.accessibleDocs[2] = chatDocs[1].id
    /\ StoredDocList = chatDocs

\* C15: the documents an admin-role user is shown and may manage are the
\* full stored document collection, whatever that user's accessibleDocs.
C15_AdminSeesAllDocs ==
    AdminView => adminDocs = StoredDocList

\* C16: the view is Sending exactly while its request is outstanding; an
\* accepted submit leaves Idle and issues one request; a response appends
\* one model message and a failure none, and either returns the view to
\* Idle; a request that settles in the end leaves no view Sending for ever.
\* (hist describes the last handler; the clock moves in no handler.)
C16_IdleSendingIdle ==
    /\ [](loading <=> reqs # <<>>)
    /\ [][(hist'.op = "send" /\ clock' = clock) =>
             /\ ~loading /\ loading'
             /\ reqs = <<>> /\ Len(reqs') = 1]_vars
    /\ [][(hist'.op = "reply" /\ clock' = clock) =>
             /\ loading /\ ~loading'
             /\ reqs' = <<>>
             /\ Len(messages') = Len(messages) + 1
             /\ SubSeq(messages', 1, Len(messages)) = messages
             /\ messages'[Len(messages')].role = "model"]_vars
    /\ [][(hist'.op = "fail" /\ clock' = clock) =>
             /\ loading /\ ~loading'
             /\ reqs' = <<>>
             /\ messages' = messages]_vars
    /\ (loading ~> (~loading /\ (hist.op \in {"reply", "fail"} \/ ~ChatView)))

\* a response has returned the view to Idle with its one model message
C16_Witness ==
    /\ hist.op = "reply"
    /\ ~loading
    /\ reqs = <<>>
    /\ Len(messages) = 2
    /\ messages[1].role = "user"
    /\ messages[2].role = "model"

\* C17: the request of an accepted submit carries the log as it stood before
\* the submit, message by message in log order, and then the new prompt,
\* once: nothing of the log is missing and the optimistic user message is
\* not part of the history.
C17_HistoryThenPrompt ==
    [][(hist'.op = "send" /\ clock' = clock) =>
         /\ Len(reqs') = Len(reqs) + 1
         /\ LET contents == reqs'[Len(reqs')].contents IN
            /\ Len(contents) = Len(messages) + 1
            /\ \A k \in DOMAIN messages :
                  /\ contents[k].role = messages[k].role
                  /\ contents[k].text = messages[k].text
            /\ contents[Len(messages) + 1].role = "user"
            /\ contents[Len(messages) + 1].text = hist'.text]_vars

\* a submit after an earlier send failed or lost its response to a bulk
\* delete: the log before the submit ended with a user message
C17_Witness ==
    /\ hist.op = "send"
    /\ Len(reqs) = 1
    /\ Len(messages) = 3
    /\ messages[2].role = "user"
    /\ Len(reqs[1].contents) = 3
    /\ reqs[1].contents[2].role = "user"
    /\ apiKey

\* C18: once Storage.init has written dc_users, the stored users hold the
\* seed admin record as seeded and no other record of role 'admin': every
\* other record has the role 'user', and no row of the panel (the targets
\* of delete and of the access toggle) is an admin record.
C18_OnlySeedAdmin ==
    lsUsers.kind = "ok" =>
       LET seed == [id |-> 1, username |-> "admin", password |-> "admin",
                    role |-> "admin", accessibleDocs |-> <<>>] IN
       /\ \E i \in DOMAIN StoredUserList : StoredUserList[i] = seed
       /\ \A i \in DOMAIN StoredUserList :
             IF StoredUserList[i].role = "admin"
             THEN /\ StoredUserList[i] = seed
                  /\ \A j \in DOMAIN StoredUserList :
                        StoredUserList[j].role = "admin" => j = i
             ELSE StoredUserList[i].role = "user"
       /\ \A i \in DOMAIN adminUsers : adminUsers[i].role # "admin"

\* the admin has added a user named admin and granted it a document
C18_Witness ==
    /\ AdminView
    /\ Len(StoredUserList) = 2
    /\ StoredUserList[2].username = "admin"
    /\ StoredUserList[2].role = "user"
    /\ StoredUserList[2].accessibleDocs # <<>>
    /\ Len(adminUsers) = 1

\* C19: in one admin panel the list shown equals the stored collection after
\* every operation, and no operation loses another's change: an upload that
\* completes appends its document to the collection as stored at that
\* moment, a deletion removes its document and nothing else, an instruction
\* edit changes its document's instruction and nothing else, whatever
\* uploads are still extracting.
C19_NoDocChangeLost ==
    /\ [](AdminView => adminDocs = StoredDocList)
    /\ [][hist'.op = "upload" =>
             /\ \A i \in DOMAIN StoredDocList :
                   StoredDocList[i].id # hist'.did
             /\ StoredDocList' =
                   Append(StoredDocList,
                          [id |-> hist'.did, instruction |-> "Answer clearly."])
             /\ pendingCur' = pendingCur - 1]_vars
    /\ [][hist'.op = "deleteDoc" =>
             /\ StoredDocList' =
                   SelectSeq(StoredDocList, LAMBDA x : x.id # hist'.did)
             /\ pendingCur' = pendingCur]_vars
    /\ [][hist'.op = "editDoc" =>
             /\ Len(StoredDocList') = Len(StoredDocList)
             /\ \A i \in DOMAIN StoredDocList :
                   IF StoredDocList[i].id = hist'.did
                   THEN StoredDocList'[i] =
                           [id |-> hist'.did, instruction |-> hist'.text]
                   ELSE StoredDocList'[i] = StoredDocList[i]
             /\ pendingCur' = pendingCur]_vars

\* a document was deleted while an upload was still extracting
C19_Witness ==
    /\ hist.op = "deleteDoc"
    /\ hist.did = 11
    /\ pendingCur > 0
    /\ StoredDocList = <<>>
    /\ adminDocs = <<>>

====
